---------------------------- MODULE Spec2Model ----------------------------
(***************************************************************************)
(* metalsmith-incremental: the filter / cache / watch sub plugins of       *)
(* src/src/index.js and the helpers of src/src/lib, as a state machine.    *)
(*                                                                         *)
(* Paths are sequences of tokens ("t", "/", "b", ".pug"); no token is a    *)
(* character prefix of another, so the prefix test on token sequences is   *)
(* the prefix test String.prototype.indexOf(..) === 0 makes on the text.   *)
(* A JavaScript object used as an ordered hash (files, filtered, cached)   *)
(* is a sequence of <<key, value>> pairs in insertion order.               *)
(***************************************************************************)
EXTENDS Integers, Sequences, FiniteSets, TLC

\* ------------------------------------------------------------------ bounds
MaxBuilds == 3
MaxInFlight == 2
MaxEvents == 2

\* ------------------------------------------------------------- JS values
Undefined == "undefined"

\* ------------------------------------------------------------ sequences
Range(s) == { s[i] : i \in DOMAIN s }

Last(s) == s[Len(s)]

Front(s) == SubSeq(s, 1, Len(s) - 1)

\* Array.prototype.splice(i, 1) with a 0-based index i
Splice(s, i) == SubSeq(s, 1, i) \o SubSeq(s, i + 2, Len(s))

RECURSIVE SetToSeq(_)
SetToSeq(S) ==
  IF S = {} THEN << >>
  ELSE LET x == CHOOSE y \in S : TRUE IN << x >> \o SetToSeq(S \ {x})

\* --------------------------------------------------------- ordered hashes
Keys(o) == [ i \in DOMAIN o |-> o[i][1] ]

KeySet(o) == { o[i][1] : i \in DOMAIN o }

Has(o, k) == \E i \in DOMAIN o : o[i][1] = k

Get(o, k) == o[CHOOSE i \in DOMAIN o : o[i][1] = k][2]

\* o[k] = v: an existing key keeps its place, a new key goes last
Put(o, k, v) ==
  IF Has(o, k)
  THEN [ i \in DOMAIN o |-> IF o[i][1] = k THEN << k, v >> ELSE o[i] ]
  ELSE Append(o, << k, v >>)

\* delete o[k]
Del(o, k) == SelectSeq(o, LAMBDA e : e[1] # k)

\* { ...a, ...b }
RECURSIVE Merge(_, _)
Merge(a, b) ==
  IF b = << >> THEN a
  ELSE Merge(Put(a, b[1][1], b[1][2]), Tail(b))

\* ------------------------------------------------------------------ paths
\* path.sep
Sep == "/"

\* dir.indexOf(path) === 0
StartsWith(dir, path) ==
  Len(path) <= Len(dir) /\ SubSeq(dir, 1, Len(path)) = path

isInDir(path, dirs) == \E i \in DOMAIN dirs : StartsWith(dirs[i], path)

HasSep(p) == \E i \in DOMAIN p : p[i] = Sep

LastSep(p) == CHOOSE i \in DOMAIN p : p[i] = Sep /\ \A j \in DOMAIN p : p[j] = Sep => j <= i

\* path.dirname: "." (the empty sequence here) for a path without a separator
Dirname(p) == IF HasSep(p) THEN SubSeq(p, 1, LastSep(p) - 1) ELSE << >>

IsExtToken(t) == t \in { ".pug", ".jade", ".html", ".md" }

\* path.extname
Extname(p) == IF p # << >> /\ IsExtToken(Last(p)) THEN Last(p) ELSE ""

\* path.normalize on the joined text: "." and empty segments dropped, ".." pops
RECURSIVE Normalize(_, _, _)
Normalize(p, done, seg) ==
  LET flush ==
        IF seg = << >> \/ seg = << "." >> THEN done
        ELSE IF seg = << ".." >>
             THEN (IF done = << >> THEN << seg >> ELSE
                   IF Last(done) = << ".." >> THEN Append(done, seg) ELSE Front(done))
             ELSE Append(done, seg)
  IN IF p = << >> THEN flush
     ELSE IF Head(p) = Sep THEN Normalize(Tail(p), flush, << >>)
     ELSE Normalize(Tail(p), done, Append(seg, Head(p)))

RECURSIVE Unsplit(_)
Unsplit(segs) ==
  IF segs = << >> THEN << >>
  ELSE IF Len(segs) = 1 THEN segs[1]
  ELSE segs[1] \o << Sep >> \o Unsplit(Tail(segs))

\* path.join(a, b) of two relative paths
Join(a, b) == Unsplit(Normalize(a \o << Sep >> \o b, << >>, << >>))


\* ------------------------------------------------------- file records
\* A file's contents: the directives a pattern can match in its text
\* (keyword and referenced path) and the stamp of the build whose slow
\* stage wrote it (0: read from the source directory).
Content(text, gen) == [ text |-> text, gen |-> gen ]

File(contents) == [ contents |-> contents ]

\* ------------------------------------------------- dependency resolvers
NoResolver == [ type |-> "undefined" ]

RegExpOf(kws) == [ type |-> "regexp", kws |-> kws ]

\* new RegExp(source, 'gm')
Compile(str) == RegExpOf(str.kws)

depResolverDefault(key) ==
  IF key = "pug" THEN RegExpOf({ "include", "extends" }) ELSE NoResolver

\* extension.slice(1)
Slice1(ext) ==
  CASE ext = ".pug" -> "pug"
    [] ext = ".jade" -> "jade"
    [] ext = ".html" -> "html"
    [] ext = ".md" -> "md"
    [] OTHER -> ""

ExtKey(file) == IF Extname(file) = ".jade" THEN "pug" ELSE Slice1(Extname(file))

getDepResolver(file, depResolver) ==
  IF depResolver.type = "function" THEN depResolver
  ELSE IF depResolver.type = "string" THEN Compile(depResolver)
  ELSE IF depResolver.type = "regexp" THEN depResolver
  ELSE LET key == ExtKey(file)
           prop == IF depResolver.type = "object" /\ key \in DOMAIN depResolver.map
                   THEN depResolver.map[key] ELSE NoResolver
       IN IF prop.type = "function" THEN prop
          ELSE IF prop.type = "string" THEN Compile(prop)
          ELSE IF prop.type = "regexp" THEN prop
          ELSE depResolverDefault(key)

\* while ((match = depResolver.exec(file.contents)) !== null) dependencies.push(match[1])
ExecAll(re, contents) ==
  LET hits == SelectSeq(contents.text, LAMBDA d : d.kw \in re.kws)
  IN [ i \in DOMAIN hits |-> hits[i].ref ]

\* depResolver(file, baseDir) of a callback: the list of the paths the file
\* refers to, or null
CallResolver(fn, file) ==
  [ isNull |-> fn.returns = "null",
    list |-> [ i \in DOMAIN file.contents.text |-> file.contents.text[i].ref ] ]

NoBaseDir == [ set |-> FALSE, rel |-> << >> ]

\* path.join(baseDir, dependency) made relative to metalsmith.source(), for a
\* baseDir inside the source directory, or path.join(path.dirname(filePath), dependency)
ResolveDependency(filePath, dependency, baseDir) ==
  IF baseDir.set /\ dependency # << >> /\ Head(dependency) = Sep
  THEN Join(baseDir.rel, dependency)
  ELSE Join(Dirname(filePath), dependency)

IsModifiedDependency(dep, modifiedFiles, modifiedDirs) ==
  \/ dep \in modifiedFiles
  \/ isInDir(dep, SetToSeq(modifiedFiles))
  \/ isInDir(dep, modifiedDirs)

\* an early continue that leaves the worklist and the index as they are
Skip_stay(paths, i, l) == [ paths |-> paths, i |-> i, l |-> l ]

\* paths.splice(i, 1); l--; i--; continue, and the loop's i++
Skip(paths, i, l) == [ paths |-> Splice(paths, i), i |-> i, l |-> l - 1 ]

\* paths.splice(i, 1); l--; i = 0; break, and the loop's i++
Restart(paths, i, l) == [ paths |-> Splice(paths, i), i |-> 1, l |-> l - 1 ]

\* One iteration of the loop of depGraph: paths is the worklist, i the
\* 0-based index of the path looked at, l the loop's bound, depResolver the
\* (reassigned) parameter. Yields their new values and the new
\* modifiedFiles, or a TypeError.
depGraphStep(files, paths, i, l, modifiedFiles, modifiedDirs, baseDir, depResolver) ==
  LET filePath == paths[i + 1]
      resolver == getDepResolver(filePath, depResolver)
      Go(n, mFiles, threw) ==
        [ paths |-> n.paths, i |-> n.i, l |-> n.l, modifiedFiles |-> mFiles,
          depResolver |-> resolver, threw |-> threw ]
      here == [ paths |-> paths, i |-> i, l |-> l ]
  IN IF resolver.type = "undefined" \/ filePath \in modifiedFiles
          \/ isInDir(filePath, modifiedDirs)
     THEN Go(Skip(paths, i, l), modifiedFiles, FALSE)
     ELSE
       LET file == Get(files, filePath)
           found == IF resolver.type = "function"
                    THEN CallResolver(resolver, file)
                    ELSE [ isNull |-> FALSE, list |-> ExecAll(resolver, file.contents) ]
       IN IF found.isNull
          THEN \* dependencies.length of null
               Go(here, modifiedFiles, TRUE)
          ELSE IF \E j \in DOMAIN found.list :
                    IsModifiedDependency(
                      ResolveDependency(filePath, found.list[j], baseDir),
                      modifiedFiles, modifiedDirs)
               THEN Go(Restart(paths, i, l), modifiedFiles \cup { filePath }, FALSE)
               ELSE Go([ here EXCEPT !.i = i + 1 ], modifiedFiles, FALSE)

\* The loop of depGraph. Yields the new modifiedFiles, or a TypeError.
RECURSIVE depGraphLoop(_, _, _, _, _, _, _, _)
depGraphLoop(files, paths, i, l, modifiedFiles, modifiedDirs, baseDir, depResolver) ==
  IF ~(i < l) THEN [ modifiedFiles |-> modifiedFiles, threw |-> FALSE ]
  ELSE
    LET n == depGraphStep(files, paths, i, l, modifiedFiles, modifiedDirs, baseDir,
                          depResolver)
    IN IF n.threw THEN [ modifiedFiles |-> n.modifiedFiles, threw |-> TRUE ]
       ELSE depGraphLoop(files, n.paths, n.i, n.l, n.modifiedFiles, modifiedDirs,
                         baseDir, n.depResolver)

depGraph(files, modifiedFiles, modifiedDirs, baseDir, depResolver) ==
  depGraphLoop(files, Keys(files), 0, Len(files), modifiedFiles, modifiedDirs,
               baseDir, depResolver)

\* ------------------------------------------------------- rename rules
NoRename == [ type |-> "undefined" ]

\* { from: /\.pug$/, to: '.html' }
PugToHtml ==
  [ type |-> "object",
    from |-> [ type |-> "regexp", tok |-> ".pug", anchored |-> TRUE ],
    to |-> ".html" ]

\* (path) => { path.ext = path.ext.replace('.pug', '.html'); return path }
PugToHtmlFn == [ type |-> "function", from |-> ".pug", to |-> ".html" ]

\* rename: null
NullRename == [ type |-> "null" ]

\* { from: /\.pug$/, to: '' }
StripPug ==
  [ type |-> "object",
    from |-> [ type |-> "regexp", tok |-> ".pug", anchored |-> TRUE ],
    to |-> "" ]

\* { to: '.html' }
ToOnly == [ type |-> "object", from |-> [ type |-> "undefined" ], to |-> ".html" ]

\* a string is truthy unless it is empty or undefined
Truthy(v) == v # "" /\ v # Undefined

\* rename.from: a RegExp is truthy, a string unless it is empty
FromTruthy(from) ==
  from.type = "regexp" \/ (from.type = "string" /\ from.tok # "")

renameIsFunc(rename) == rename.type = "function"

renameIsRegex(rename) ==
  ~renameIsFunc(rename) /\ rename.type = "object"
    /\ FromTruthy(rename.from) /\ Truthy(rename.to)

\* typeof null is 'object', so rename.from is read off null: a TypeError
renameThrows(rename) == ~renameIsFunc(rename) /\ rename.type = "null"

validRename(rename) == renameIsFunc(rename) \/ renameIsRegex(rename)

\* String.prototype.replace(from, to): the first match only
Replace(file, from, to) ==
  LET hits == { i \in DOMAIN file :
                  file[i] = from.tok /\ (from.anchored => i = Len(file)) }
  IN IF hits = {} THEN file
     ELSE LET i == CHOOSE h \in hits : \A g \in hits : h <= g
          IN SubSeq(file, 1, i - 1) \o << to >> \o SubSeq(file, i + 1, Len(file))

\* path.basename(file, extname)
Basename(file, ext) ==
  LET base == IF HasSep(file) THEN SubSeq(file, LastSep(file) + 1, Len(file)) ELSE file
  IN IF ext # "" THEN Front(base) ELSE base

resolveRename(file, rename) ==
  IF renameIsFunc(rename)
  THEN LET extname == Extname(file)
           renamed == [ dirname |-> Dirname(file),
                        basename |-> Basename(file, extname),
                        ext |-> IF extname = rename.from THEN rename.to ELSE extname ]
       IN Join(renamed.dirname,
               renamed.basename \o (IF renamed.ext = "" THEN << >> ELSE << renamed.ext >>))
  ELSE IF renameIsRegex(rename)
  THEN Replace(file, rename.from, rename.to)
  ELSE file

\* ------------------------------------------------------------ minimatch
\* minimatch(path, glob): a "*" matches any run of tokens without a separator
RECURSIVE Minimatch(_, _)
Minimatch(path, glob) ==
  IF glob = << >> THEN path = << >>
  ELSE IF Head(glob) = "*"
  THEN \E k \in 0 .. Len(path) :
         /\ \A i \in 1 .. k : path[i] # Sep
         /\ Minimatch(SubSeq(path, k + 1, Len(path)), Tail(glob))
  ELSE path # << >> /\ Head(path) = Head(glob) /\ Minimatch(Tail(path), Tail(glob))

\* minimatch.match(list, glob): the paths of the list that match
MinimatchMatch(list, glob) == SelectSeq(list, LAMBDA q : Minimatch(q, glob))

\* if (array): an array is an object, truthy also when it is empty
ArrayTruthy(array) == array = << >> \/ array # << >>

\* ---------------------------------------------------------- filter steps
\* forceGlobs.forEach(glob => filesPaths.filter(minimatch.filter(glob)).forEach(mark))
ForceMarked(filesPaths, globs) ==
  { filesPaths[i] : i \in { j \in DOMAIN filesPaths :
                              \E g \in DOMAIN globs : Minimatch(filesPaths[j], globs[g]) } }

\* if (modifiedFiles[filePath] || isInDir(filePath, modifiedDirs)) continue
FilterKeeps(filePath, mFiles, mDirs) ==
  filePath \in mFiles \/ isInDir(filePath, mDirs)

\* a loop that deletes the other files from files and keeps no record of them
FilterLoop_drop(filesPaths, files, aside, mFiles, mDirs) ==
  [ files |-> SelectSeq(files, LAMBDA e : FilterKeeps(e[1], mFiles, mDirs)),
    filtered |-> aside ]

\* the loop that moves the other files from files to filtered
RECURSIVE FilterLoop(_, _, _, _, _)
FilterLoop(filesPaths, files, aside, mFiles, mDirs) ==
  IF filesPaths = << >> THEN [ files |-> files, filtered |-> aside ]
  ELSE LET filePath == Head(filesPaths)
       IN IF FilterKeeps(filePath, mFiles, mDirs)
          THEN FilterLoop(Tail(filesPaths), files, aside, mFiles, mDirs)
          ELSE FilterLoop(Tail(filesPaths), Del(files, filePath),
                          Put(aside, filePath, Get(files, filePath)), mFiles, mDirs)

\* ----------------------------------------------------------- cache steps
\* a loop over Object.keys(removedFiles) that deletes nothing
RemoveFilesLoop_none(keys, cachedO, removed, rename) ==
  [ cached |-> cachedO, removedFiles |-> removed ]

\* The loop over Object.keys(removedFiles): yields cached and removedFiles
RECURSIVE RemoveFilesLoop(_, _, _, _)
RemoveFilesLoop(keys, cachedO, removed, rename) ==
  IF keys = << >> THEN [ cached |-> cachedO, removedFiles |-> removed ]
  ELSE
    LET key == Head(keys)
        direct == Has(cachedO, key)
        removedFileKey == IF ~direct /\ validRename(rename)
                          THEN resolveRename(key, rename) ELSE key
        found == direct \/ (validRename(rename) /\ Has(cachedO, removedFileKey))
    IN IF found
       THEN RemoveFilesLoop(Tail(keys), Del(cachedO, removedFileKey),
                            removed \ { removedFileKey }, rename)
       ELSE RemoveFilesLoop(Tail(keys), cachedO, removed, rename)

\* the loop that deletes the cached files of the removed directories
RemoveDirs(cachedO, rDirs) == SelectSeq(cachedO, LAMBDA e : ~isInDir(e[1], rDirs))

\* a lookup that never falls back to the renamed key
CachedKeyOf_direct(filteredKey, cachedO, rename) == filteredKey

\* the key under which a filtered file is looked up in the cache
CachedKeyOf(filteredKey, cachedO, rename) ==
  IF ~Has(cachedO, filteredKey) /\ validRename(rename)
  THEN resolveRename(filteredKey, rename)
  ELSE filteredKey

\* The values of a file record's properties other than contents: a string,
\* a nested object, or undefined.
Str(v) == [ t |-> "string", v |-> v ]

Obj(o) == [ t |-> "object", o |-> o ]

Undef == [ t |-> "undefined" ]

\* The props option: absent, one name, or a list whose entries are names or
\* field paths.
NoProps == [ type |-> "undefined" ]

PropName(name) == [ type |-> "string", name |-> name ]

PropList(items) == [ type |-> "array", items |-> items ]

\* a number read where a property name was meant
Num(n) == [ type |-> "number", n |-> n ]

\* if (props): undefined and the empty string are falsy, an array is not
PropsTruthy(props) ==
  /\ props.type # "undefined"
  /\ props.type = "string" => props.name # ""

\* tmpFile[key] && tmpCache[key]
TruthyVal(v) ==
  /\ ~("t" \in DOMAIN v /\ v.t = "undefined")
  /\ ~("t" \in DOMAIN v /\ v.t = "string" /\ v.v = "")

\* o[key], undefined where the object has no such property
GetProp(o, key) == IF key \in DOMAIN o THEN o[key] ELSE Undef

\* o[key] = v
SetProp(o, key, v) ==
  [ k \in DOMAIN o \cup { key } |-> IF k = key THEN v ELSE o[k] ]

\* the property key a value is converted to when it indexes an object
PropKey(prop) == IF prop.type = "number" THEN ToString(prop.n) ELSE prop.name

\* the loop over a field path: for (let n = 0, m = prop.length; n < m; n++)
RECURSIVE CopyPath(_, _, _, _)
CopyPath(tmpFile, tmpCache, prop, n) ==
  IF n > Len(prop) THEN tmpFile
  ELSE LET key == prop[n]
       IN IF n = Len(prop) \/ key \notin DOMAIN tmpFile
          THEN SetProp(tmpFile, key, GetProp(tmpCache, key))
          ELSE IF TruthyVal(tmpFile[key]) /\ TruthyVal(GetProp(tmpCache, key))
               THEN IF tmpFile[key].t = "object" /\ GetProp(tmpCache, key).t = "object"
                    THEN SetProp(tmpFile, key,
                                 Obj(CopyPath(tmpFile[key].o, GetProp(tmpCache, key).o,
                                              prop, n + 1)))
                    ELSE tmpFile
               ELSE CopyPath(tmpFile, tmpCache, prop, n + 1)

\* if (Array.isArray(prop)) { .. } else { file[prop] = cache[prop] }
CopyProp(file, cache, prop) ==
  IF prop.type = "array"
  THEN CopyPath(file, cache, prop.items, 1)
  ELSE SetProp(file, PropKey(prop), GetProp(cache, PropKey(prop)))

\* if (!Array.isArray(props)) props = [props]
PropsArray(props) == IF props.type = "array" THEN props.items ELSE << props >>

\* const prop = props.length
PropAt(props, j) == Num(Len(props))

\* for (let j = 0, k = props.length; j < k; j++)
RECURSIVE PropsLoop(_, _, _, _)
PropsLoop(file, cache, props, j) ==
  IF j > Len(props) THEN file
  ELSE PropsLoop(CopyProp(file, cache, PropAt(props, j)), cache, props, j + 1)

\* file.contents = cache.contents, then the loop over props
RestoredFile(file, cache, props) ==
  LET withContents == [ file EXCEPT !.contents = cache.contents ]
  IN IF PropsTruthy(props)
     THEN PropsLoop(withContents, cache, PropsArray(props), 1)
     ELSE withContents

\* files[cachedKey] = file
RestoreInto(files, cachedKey, file) == Put(files, cachedKey, file)

\* a loop that puts every file of filtered back, with or without a cache entry
RestoreLoop_all(keys, files, aside, cachedO, rename, props) == Merge(files, aside)

\* the loop over Object.keys(filtered)
RECURSIVE RestoreLoop(_, _, _, _, _, _)
RestoreLoop(keys, files, aside, cachedO, rename, props) ==
  IF keys = << >> THEN files
  ELSE
    LET filteredKey == Head(keys)
        cachedKey == CachedKeyOf(filteredKey, cachedO, rename)
    IN IF Has(cachedO, cachedKey)
       THEN RestoreLoop(Tail(keys),
                        RestoreInto(files, cachedKey,
                                    RestoredFile(Get(aside, filteredKey),
                                                 Get(cachedO, cachedKey), props)),
                        aside, cachedO, rename, props)
       ELSE RestoreLoop(Tail(keys), files, aside, cachedO, rename, props)

\* cached = { ...clonedFiles }: the earlier entries are dropped
MergeCache_overwrite(cachedO, clonedFiles) == clonedFiles

\* cached = { ...cached, ...clonedFiles }
MergeCache(cachedO, clonedFiles) == Merge(cachedO, clonedFiles)

\* ------------------------------------------------------------- the state
VARIABLES
  modifiedFiles,  \* let modifiedFiles = {}: the set of its keys
  modifiedDirs,   \* let modifiedDirs = []
  removedFiles,   \* let removedFiles = {}: the set of its keys
  removedDirs,    \* let removedDirs = []
  forceGlobs,     \* let forceGlobs = []
  filtered,       \* let filtered = {}
  isWatching,     \* let isWatching = false
  watchers,       \* the watchers chokidar.watch has created
  wraps,          \* the times metalsmith.build has been replaced by spyBuild
  isRunning,      \* let isRunning = false
  cached,         \* let cached, of the cache plugin: [def, o]
  buildDoneFn,    \* let buildDoneFn, of watch: "unset", "host" or "handler"
  options,        \* the options hash: depResolver, baseDir, rename, props, paths
  timer,          \* the debounced triggerBuild is pending
  ready,          \* the watcher has emitted 'ready'
  alive,          \* the process runs
  disk,           \* the files of metalsmith.source()
  env,            \* the source tree's paths and what the slow plugin may do
  builds,         \* the builds in flight, by slot
  nStarted,       \* builds started so far
  nEvents,        \* filesystem events so far
  late,           \* the files changed while a triggered build was in flight,
                  \* each with the builds started by then, until the filter
                  \* stage of a build triggered later has run
  prevOut,        \* the batch as the last Cache stage left it
  last            \* the step taken last

vars == << modifiedFiles, modifiedDirs, removedFiles, removedDirs, forceGlobs,
           filtered, isWatching, watchers, wraps, isRunning, cached, buildDoneFn, options, timer,
           ready, alive, disk, env, builds, nStarted, nEvents, late, prevOut,
           last >>

\* isWatching and what watch() has set up
watchState == << isWatching, watchers, wraps >>

changeSet == << modifiedFiles, modifiedDirs, removedFiles, removedDirs >>

config == << options, env >>

Slots == 1 .. MaxInFlight

FreeBuild ==
  [ pc |-> "free", id |-> 0, trig |-> FALSE, files |-> << >>, orig |-> {},
    aside |-> {}, err |-> FALSE, dn |-> 0 ]

IsFree(s) == builds[s].pc = "free"

FirstFree == CHOOSE s \in Slots : IsFree(s) /\ \A r \in Slots : IsFree(r) => s <= r

\* ------------------------------------------------------------ the paths
PA == << "a", ".pug" >>
PAH == << "a", ".html" >>
PTB == << "t", "/", "b", ".pug" >>
PTC == << "t", "/", "c", ".pug" >>
PM == << "i", ".md" >>
PB == << "b", ".pug" >>
PC == << "c", ".pug" >>
DT == << "t" >>

Include(ref) == [ kw |-> "include", ref |-> ref ]

\* the text of a source file: a.pug includes t/b.pug
SourceText(p) == IF p = PA THEN << Include(PTB) >> ELSE << >>

\* metalsmith reads the source directory into the batch
ReadSource(d) ==
  LET here == SelectSeq(env.files, LAMBDA q : q \in d)
  IN [ i \in DOMAIN here |-> << here[i], File(Content(SourceText(here[i]), 0)) >> ]

\* the slow plugin: every file of the batch rebuilt, a .pug file renamed to
\* .html when the plugin renames
SlowName(k, ren) ==
  IF ren /\ Extname(k) = ".pug" THEN Front(k) \o << ".html" >> ELSE k

RECURSIVE SlowRun(_, _, _, _)
SlowRun(files, out, ren, id) ==
  IF files = << >> THEN out
  ELSE SlowRun(Tail(files),
               Put(out, SlowName(files[1][1], ren), File(Content(<< >>, id))),
               ren, id)

\* ------------------------------------------------------------ the steps
\* spyBuild: the first callback a build is started with after watch() is kept
SpyBuild(fn) ==
  IF isWatching /\ buildDoneFn = "unset" THEN fn ELSE buildDoneFn

StartBuild(s, trig) ==
  builds' = [ builds EXCEPT ![s] =
                [ pc |-> "filter", id |-> nStarted + 1, trig |-> trig,
                  files |-> ReadSource(disk),
                  orig |-> { q \in Range(env.files) : q \in disk },
                  aside |-> {}, err |-> FALSE, dn |-> 0 ] ]

\* the host calls metalsmith.build(fn): the first build, or one more later
HostBuild ==
  /\ alive
  /\ nStarted < MaxBuilds
  /\ \E s \in Slots : IsFree(s)
  /\ nStarted = 0 \/ isWatching
  /\ StartBuild(FirstFree, FALSE)
  /\ buildDoneFn' = SpyBuild("host")
  /\ nStarted' = nStarted + 1
  /\ last' = [ op |-> "start", slot |-> FirstFree ]
  /\ UNCHANGED << changeSet, forceGlobs, filtered, watchState, isRunning, cached,
                  config, timer, ready, alive, disk, nEvents, late, prevOut >>

\* the targets triggerBuild pushes to forceGlobs
ForcedTargets(paths, mFiles) ==
  IF ~paths.def THEN << >>
  ELSE LET hit == SelectSeq(paths.o,
                    LAMBDA e : ArrayTruthy(MinimatchMatch(SetToSeq(mFiles), e[1])))
       IN [ i \in DOMAIN hit |-> hit[i][2] ]

\* the debounce delay has passed without an event: triggerBuild()
TriggerBuild ==
  /\ alive
  /\ timer
  /\ nStarted < MaxBuilds
  /\ \E s \in Slots : IsFree(s)
  /\ timer' = FALSE
  /\ forceGlobs' = forceGlobs \o ForcedTargets(options.paths, modifiedFiles)
  /\ isRunning' = TRUE
  /\ StartBuild(FirstFree, TRUE)
  /\ buildDoneFn' = SpyBuild("handler")
  /\ nStarted' = nStarted + 1
  /\ last' = [ op |-> "start", slot |-> FirstFree ]
  /\ UNCHANGED << changeSet, filtered, watchState, cached, config, ready, alive,
                  disk, nEvents, late, prevOut >>

\* a stage that returns without any call of done
QueueDone_none(n) == n

\* setImmediate(done), the first statement of filter, cache and watch: one
\* more call of the stage's completion callback is queued
QueueDone(n) == n + 1

\* the gate of the earlier versions: if (!isReady) return
FilterPasses_ready == ~ready

\* if (!isRunning) return
FilterPasses == ~isRunning

\* filter(files, metalsmith, done)
Filter(s) ==
  /\ alive
  /\ builds[s].pc = "filter"
  /\ last' = [ op |-> "filter", slot |-> s ]
  /\ IF FilterPasses
     THEN /\ builds' = [ builds EXCEPT ![s].pc = "slow", ![s].dn = QueueDone(0) ]
          /\ UNCHANGED << modifiedFiles, filtered >>
     ELSE LET files == builds[s].files
              filesPaths == Keys(files)
              forced == modifiedFiles \cup ForceMarked(filesPaths, forceGlobs)
              dg == depGraph(files, forced, modifiedDirs, options.baseDir,
                             options.depResolver)
              res == FilterLoop(filesPaths, files, filtered, dg.modifiedFiles,
                                modifiedDirs)
          IN /\ modifiedFiles' = dg.modifiedFiles
             /\ IF dg.threw
                THEN /\ builds' = [ builds EXCEPT ![s].pc = "end", ![s].err = TRUE,
                                                   ![s].dn = QueueDone(0) ]
                     /\ UNCHANGED filtered
                ELSE /\ filtered' = res.filtered
                     /\ builds' = [ builds EXCEPT
                                      ![s].pc = "slow",
                                      ![s].dn = QueueDone(0),
                                      ![s].files = res.files,
                                      ![s].aside = KeySet(files) \ KeySet(res.files) ]
  \* the late changes made before this build was triggered have been seen
  /\ late' = IF builds[s].trig
             THEN { e \in late : ~(e[2] < builds[s].id) } ELSE late
  /\ UNCHANGED << modifiedDirs, removedFiles, removedDirs, forceGlobs, watchState,
                  isRunning, cached, buildDoneFn, config, timer, ready, alive,
                  disk, nStarted, nEvents, prevOut >>

\* the slow plugin between filter and cache rebuilds the batch
SlowOk(s) ==
  /\ alive
  /\ builds[s].pc = "slow"
  /\ \E ren \in (IF env.mayRename THEN BOOLEAN ELSE { FALSE }) :
       builds' = [ builds EXCEPT
                     ![s].pc = "cache",
                     ![s].files = SlowRun(builds[s].files, << >>, ren, builds[s].id) ]
  /\ last' = [ op |-> "slow", slot |-> s ]
  /\ UNCHANGED << changeSet, forceGlobs, filtered, watchState, isRunning, cached,
                  buildDoneFn, config, timer, ready, alive, disk, nStarted,
                  nEvents, late, prevOut >>

\* the slow plugin fails: the host runs no further plugin of this build
SlowFail(s) ==
  /\ alive
  /\ builds[s].pc = "slow"
  /\ builds' = [ builds EXCEPT ![s].pc = "end", ![s].err = TRUE ]
  /\ last' = [ op |-> "slowfail", slot |-> s ]
  /\ UNCHANGED << changeSet, forceGlobs, filtered, watchState, isRunning, cached,
                  buildDoneFn, config, timer, ready, alive, disk, nStarted,
                  nEvents, late, prevOut >>

\* a cache stage that reconciles and restores in every build
CacheReconciles_always == TRUE

\* if (isRunning)
CacheReconciles == isRunning

\* cache(files, metalsmith, done)
Cache(s) ==
  /\ alive
  /\ builds[s].pc = "cache"
  /\ LET files == builds[s].files
         clonedFiles == files
     IN IF CacheReconciles /\ (renameThrows(options.rename) \/ ~cached.def)
        THEN \* rename.from of null; Object.keys(cached), or
             \* cached[removedFileKey], of undefined
             /\ builds' = [ builds EXCEPT ![s].pc = "end", ![s].err = TRUE,
                                          ![s].dn = QueueDone(0) ]
             /\ last' = [ op |-> "cache", slot |-> s ]
             /\ UNCHANGED << modifiedFiles, removedFiles, filtered, cached, prevOut >>
        ELSE IF CacheReconciles
        THEN LET rename == options.rename
                 rm == RemoveFilesLoop(SetToSeq(removedFiles), cached.o,
                                       removedFiles, rename)
                 kept == RemoveDirs(rm.cached, removedDirs)
                 restored == RestoreLoop(Keys(filtered), files, filtered, kept,
                                         rename, options.props)
             IN /\ last' = [ op |-> "cache", slot |-> s,
                             \* the filtered files the restore loop did not find
                             dropped |-> { k \in KeySet(filtered) :
                                            ~Has(kept, CachedKeyOf(k, kept, rename)) } ]
                /\ removedFiles' = rm.removedFiles
                /\ filtered' = << >>
                /\ modifiedFiles' = modifiedFiles \cup KeySet(clonedFiles)
                /\ cached' = [ def |-> TRUE, o |-> MergeCache(kept, clonedFiles) ]
                /\ builds' = [ builds EXCEPT ![s].pc = "watch", ![s].files = restored,
                                              ![s].dn = QueueDone(0) ]
                /\ prevOut' = restored
        ELSE /\ cached' = [ def |-> TRUE, o |-> MergeCache(cached.o, clonedFiles) ]
             /\ builds' = [ builds EXCEPT ![s].pc = "watch", ![s].dn = QueueDone(0) ]
             /\ prevOut' = files
             /\ last' = [ op |-> "cache", slot |-> s ]
             /\ UNCHANGED << modifiedFiles, removedFiles, filtered >>
  /\ UNCHANGED << modifiedDirs, removedDirs, forceGlobs, watchState, isRunning,
                  buildDoneFn, config, timer, ready, alive, disk, nStarted,
                  nEvents, late >>

\* a watch stage that starts a watcher whenever it runs
WatchReturns_never == FALSE

\* if (isWatching) return
WatchReturns == isWatching

\* watch(files, metalsmith, done)
Watch(s) ==
  /\ alive
  /\ builds[s].pc = "watch"
  /\ builds' = [ builds EXCEPT ![s].pc = "end", ![s].dn = QueueDone(0) ]
  /\ last' = [ op |-> "watch", slot |-> s ]
  /\ IF WatchReturns
     THEN UNCHANGED << watchState, buildDoneFn, ready >>
     ELSE /\ isWatching' = TRUE
          \* let buildDoneFn; metalsmith.build = spyBuild
          /\ buildDoneFn' = "unset"
          /\ wraps' = wraps + 1
          \* chokidar.watch(source, ...)
          /\ watchers' = watchers + 1
          /\ ready' = FALSE
  /\ UNCHANGED << changeSet, forceGlobs, filtered, isRunning, cached, config,
                  timer, alive, disk, nStarted, nEvents, late, prevOut >>

\* a completion handler that clears the ChangeSet after a successful build only
BuildDone_onSuccess(s) ==
  /\ alive
  /\ builds[s].pc = "end"
  /\ builds' = [ builds EXCEPT ![s] = FreeBuild ]
  /\ last' = [ op |-> "done", slot |-> s, trig |-> builds[s].trig,
               err |-> builds[s].err ]
  /\ IF builds[s].trig
     THEN /\ IF builds[s].err
             THEN UNCHANGED << changeSet, forceGlobs >>
             ELSE /\ modifiedFiles' = {}
                  /\ modifiedDirs' = << >>
                  /\ removedFiles' = {}
                  /\ removedDirs' = << >>
                  /\ forceGlobs' = << >>
          /\ isRunning' = FALSE
          /\ IF buildDoneFn = "host" THEN alive' = alive ELSE alive' \in BOOLEAN
     ELSE UNCHANGED << changeSet, forceGlobs, isRunning, alive >>
  /\ UNCHANGED << filtered, watchState, cached, buildDoneFn, config, timer, ready,
                  disk, nStarted, nEvents, late, prevOut >>

\* the build's callback: the host's own, or the one triggerBuild passed
BuildDone(s) ==
  /\ alive
  /\ builds[s].pc = "end"
  /\ builds' = [ builds EXCEPT ![s] = FreeBuild ]
  /\ last' = [ op |-> "done", slot |-> s, trig |-> builds[s].trig,
               err |-> builds[s].err ]
  /\ IF builds[s].trig
     THEN /\ modifiedFiles' = {}
          /\ modifiedDirs' = << >>
          /\ removedFiles' = {}
          /\ removedDirs' = << >>
          /\ forceGlobs' = << >>
          /\ isRunning' = FALSE
          \* buildDoneFn(err): the host's callback, or this very handler again
          \* and again until the stack overflows
          /\ IF buildDoneFn = "host" THEN alive' = alive ELSE alive' \in BOOLEAN
     ELSE UNCHANGED << changeSet, forceGlobs, isRunning, alive >>
  /\ UNCHANGED << filtered, watchState, cached, buildDoneFn, config, timer, ready,
                  disk, nStarted, nEvents, late, prevOut >>

\* watcher.on('ready', ...)
WatcherReady ==
  /\ alive
  /\ isWatching
  /\ ~ready
  /\ ready' = TRUE
  /\ last' = [ op |-> "ready", slot |-> 0 ]
  /\ UNCHANGED << changeSet, forceGlobs, filtered, watchState, isRunning, cached,
                  buildDoneFn, config, timer, alive, disk, builds, nStarted,
                  nEvents, late, prevOut >>

\* handleAll(event, filePath), then debouncedBuild()
CanEvent == alive /\ isWatching /\ nEvents < MaxEvents

\* a handler that records the event and schedules no build
Handled_unscheduled(event) ==
  /\ timer' = timer
  /\ nEvents' = nEvents + 1
  /\ last' = [ op |-> event, slot |-> 0 ]
  /\ UNCHANGED << forceGlobs, filtered, watchState, isRunning, cached, buildDoneFn,
                  config, ready, alive, builds, nStarted, prevOut >>

Handled(event) ==
  /\ timer' = TRUE
  /\ nEvents' = nEvents + 1
  /\ last' = [ op |-> event, slot |-> 0 ]
  /\ UNCHANGED << forceGlobs, filtered, watchState, isRunning, cached, buildDoneFn,
                  config, ready, alive, builds, nStarted, prevOut >>

\* the change of p, made while a build triggerBuild started is in flight, is
\* one a build triggered later has to see
Late(p) ==
  late' = IF \E s \in Slots : ~IsFree(s) /\ builds[s].trig
          THEN late \cup { << p, nStarted >> } ELSE late

FsAdd(p) ==
  /\ CanEvent
  /\ p \notin disk
  /\ disk' = disk \cup { p }
  /\ modifiedFiles' = modifiedFiles \cup { p }
  /\ Late(p)
  /\ Handled("add")
  /\ UNCHANGED << modifiedDirs, removedFiles, removedDirs >>

FsChange(p) ==
  /\ CanEvent
  /\ p \in disk
  /\ modifiedFiles' = modifiedFiles \cup { p }
  /\ Late(p)
  /\ Handled("change")
  /\ UNCHANGED << disk, modifiedDirs, removedFiles, removedDirs >>

\* an unlink handled as the change of a file is
FsUnlink_modified(p) ==
  /\ CanEvent
  /\ p \in disk
  /\ disk' = disk \ { p }
  /\ modifiedFiles' = modifiedFiles \cup { p }
  /\ Handled("unlink")
  /\ UNCHANGED << modifiedDirs, removedFiles, removedDirs, late >>

FsUnlink(p) ==
  /\ CanEvent
  /\ p \in disk
  /\ disk' = disk \ { p }
  /\ removedFiles' = removedFiles \cup { p }
  /\ Handled("unlink")
  /\ UNCHANGED << modifiedFiles, modifiedDirs, removedDirs, late >>

FsAddDir(d) ==
  /\ CanEvent
  /\ modifiedDirs' = Append(modifiedDirs, d)
  /\ Handled("addDir")
  /\ UNCHANGED << disk, modifiedFiles, removedFiles, removedDirs, late >>

\* the files of a directory that is unlinked go with it
FsUnlinkDir(d) ==
  /\ CanEvent
  /\ \E q \in disk : StartsWith(q, d \o << Sep >>)
  /\ disk' = { q \in disk : ~StartsWith(q, d \o << Sep >>) }
  /\ removedDirs' = Append(removedDirs, d)
  /\ Handled("unlinkDir")
  /\ UNCHANGED << modifiedFiles, modifiedDirs, removedFiles, late >>

\* default: return, for an event that is none of the five
FsOther ==
  /\ CanEvent
  /\ nEvents' = nEvents + 1
  /\ last' = [ op |-> "other", slot |-> 0 ]
  /\ UNCHANGED << changeSet, forceGlobs, filtered, watchState, isRunning, cached,
                  buildDoneFn, config, timer, ready, alive, disk, builds, nStarted,
                  late, prevOut >>

Next ==
  \/ HostBuild
  \/ TriggerBuild
  \/ \E s \in Slots : Filter(s)
  \/ \E s \in Slots : SlowOk(s)
  \/ \E s \in Slots : SlowFail(s)
  \/ \E s \in Slots : Cache(s)
  \/ \E s \in Slots : Watch(s)
  \/ \E s \in Slots : BuildDone(s)
  \/ WatcherReady
  \/ \E p \in Range(env.files) : FsAdd(p)
  \/ \E p \in Range(env.files) : FsChange(p)
  \/ \E p \in Range(env.files) : FsUnlink(p)
  \/ \E d \in env.dirs : FsAddDir(d)
  \/ \E d \in env.dirs : FsUnlinkDir(d)

\* ------------------------------------------------------ initial states
NoPaths == [ def |-> FALSE, o |-> << >> ]

Options(rename, paths) ==
  [ depResolver |-> NoResolver, baseDir |-> NoBaseDir, rename |-> rename,
    props |-> NoProps, paths |-> paths ]

InitWith(opts, world, onDisk) ==
  /\ modifiedFiles = {}
  /\ modifiedDirs = << >>
  /\ removedFiles = {}
  /\ removedDirs = << >>
  /\ forceGlobs = << >>
  /\ filtered = << >>
  /\ isWatching = FALSE
  /\ watchers = 0
  /\ wraps = 0
  /\ isRunning = FALSE
  /\ cached = [ def |-> FALSE, o |-> << >> ]
  /\ buildDoneFn = "unset"
  /\ options = opts
  /\ timer = FALSE
  /\ ready = FALSE
  /\ alive = TRUE
  /\ disk = onDisk
  /\ env = world
  /\ builds = [ s \in Slots |-> FreeBuild ]
  /\ nStarted = 0
  /\ nEvents = 0
  /\ late = {}
  /\ prevOut = << >>
  /\ last = [ op |-> "init", slot |-> 0 ]

\* a source tree of a.pug (which includes t/b.pug) and t/b.pug, no
\* rename rule, no forced paths, a slow plugin that keeps the names
PlainWorld == [ files |-> << PA, PTB >>, dirs |-> { DT }, mayRename |-> FALSE ]

Init == InitWith(Options(NoRename, NoPaths), PlainWorld, { PA, PTB })

Spec == Init /\ [][Next]_vars

\* ------------------------------------------- depGraph on its own
\* The dependency scan applied to any batch of a.pug, b.pug and c.pug in any
\* order, each file including any of the three, with any of them modified.
DGFiles == { PA, PB, PC }

\* the texts that include any of the files F
TextsOf(F) == { [ i \in DOMAIN q |-> Include(q[i]) ] :
                 q \in { SetToSeq(R) : R \in SUBSET F } }

\* the orders in which a batch can list some of the files F
OrdersOf(F) ==
  { q \in UNION { [ 1 .. n -> F ] : n \in 1 .. Cardinality(F) } :
      \A i, j \in DOMAIN q : i # j => q[i] # q[j] }

\* the batches of some of the files F, in any order, with any texts
BatchesOf(F) ==
  UNION { { [ i \in DOMAIN q |-> << q[i], File(Content(t[q[i]], 0)) >> ] :
              t \in [ Range(q) -> TextsOf(F) ] } : q \in OrdersOf(F) }

DGTexts == TextsOf(DGFiles)

DGOrders == OrdersOf(DGFiles)

DGBatches == BatchesOf(DGFiles)

DGWorld == [ files |-> << PA, PB, PC >>, dirs |-> {}, mayRename |-> FALSE ]

\* filter has reached its call of depGraph, in a build the watcher triggered
InitBatch(F) ==
  \E batch \in BatchesOf(F), mFiles \in SUBSET F :
    /\ modifiedFiles = mFiles
    /\ modifiedDirs = << >>
    /\ removedFiles = {}
    /\ removedDirs = << >>
    /\ forceGlobs = << >>
    /\ filtered = << >>
    /\ isWatching = TRUE
    /\ watchers = 1
    /\ wraps = 1
    /\ isRunning = TRUE
    /\ cached = [ def |-> TRUE, o |-> << >> ]
    /\ buildDoneFn = "handler"
    /\ options = Options(NoRename, NoPaths)
    /\ timer = FALSE
    /\ ready = TRUE
    /\ alive = TRUE
    /\ disk = KeySet(batch)
    /\ env = DGWorld
    /\ builds = [ s \in Slots |->
                    IF s = 1
                    THEN [ FreeBuild EXCEPT !.pc = "depGraph", !.id = 1, !.trig = TRUE,
                                            !.files = batch, !.orig = KeySet(batch) ]
                    ELSE FreeBuild ]
    /\ nStarted = 1
    /\ nEvents = 0
    /\ late = {}
    /\ prevOut = << >>
    /\ last = [ op |-> "init", slot |-> 0 ]

InitDG == InitBatch(DGFiles)

\* depGraph(files, modifiedFiles, modifiedDirs, metalsmith, baseDir, depResolver)
DepGraphRun(s) ==
  /\ builds[s].pc = "depGraph"
  /\ modifiedFiles' = depGraph(builds[s].files, modifiedFiles, modifiedDirs,
                               options.baseDir, options.depResolver).modifiedFiles
  /\ builds' = [ builds EXCEPT ![s].pc = "scanned" ]
  /\ last' = [ op |-> "depGraph", slot |-> s ]
  /\ UNCHANGED << modifiedDirs, removedFiles, removedDirs, forceGlobs, filtered,
                  watchState, isRunning, cached, buildDoneFn, config, timer, ready,
                  alive, disk, nStarted, nEvents, late, prevOut >>

NextDG == \E s \in Slots : DepGraphRun(s)

SpecDG == InitDG /\ [][NextDG]_vars

\* the file's contents refer to the path, as the resolver of the file's
\* extension reads them
RefersTo(files, filePath, target) ==
  LET resolver == getDepResolver(filePath, options.depResolver)
      file == Get(files, filePath)
      found == IF resolver.type = "function" THEN CallResolver(resolver, file)
               ELSE [ isNull |-> FALSE, list |-> ExecAll(resolver, file.contents) ]
  IN /\ resolver.type # "undefined"
     /\ ~found.isNull
     /\ \E j \in DOMAIN found.list :
          ResolveDependency(filePath, found.list[j], options.baseDir) = target

\* ---------------------------------------- depGraph, iteration by iteration
\* const paths = Object.keys(files); for (let i = 0, l = paths.length; ...
ScanStart(s) ==
  /\ builds[s].pc = "depGraph"
  /\ builds' = [ builds EXCEPT ![s] =
                   [ scan |-> [ paths |-> Keys(builds[s].files), i |-> 0,
                                l |-> Len(builds[s].files),
                                depResolver |-> options.depResolver,
                                marked |-> {} ] ]
                   @@ [ builds[s] EXCEPT !.pc = "scan" ] ]
  /\ last' = [ op |-> "scanStart", slot |-> s ]
  /\ UNCHANGED << changeSet, forceGlobs, filtered, watchState, isRunning, cached,
                  buildDoneFn, config, timer, ready, alive, disk, nStarted,
                  nEvents, late, prevOut >>

\* i < l: one iteration of the loop
ScanStep(s) ==
  /\ builds[s].pc = "scan"
  /\ builds[s].scan.i < builds[s].scan.l
  /\ LET sc == builds[s].scan
         n == depGraphStep(builds[s].files, sc.paths, sc.i, sc.l, modifiedFiles,
                           modifiedDirs, options.baseDir, sc.depResolver)
     IN /\ modifiedFiles' = n.modifiedFiles
        /\ builds' = [ builds EXCEPT
                         ![s].scan = [ paths |-> n.paths, i |-> n.i, l |-> n.l,
                                       depResolver |-> n.depResolver,
                                       \* the files this scan has marked so far
                                       marked |-> sc.marked \cup
                                                    (n.modifiedFiles \ modifiedFiles) ],
                         ![s].pc = IF n.threw THEN "end" ELSE "scan",
                         ![s].err = n.threw ]
  /\ last' = [ op |-> "scanStep", slot |-> s ]
  /\ UNCHANGED << modifiedDirs, removedFiles, removedDirs, forceGlobs, filtered,
                  watchState, isRunning, cached, buildDoneFn, config, timer, ready,
                  alive, disk, nStarted, nEvents, late, prevOut >>

\* !(i < l): the loop is left
ScanEnd(s) ==
  /\ builds[s].pc = "scan"
  /\ ~(builds[s].scan.i < builds[s].scan.l)
  /\ builds' = [ builds EXCEPT ![s].pc = "scanned" ]
  /\ last' = [ op |-> "scanEnd", slot |-> s ]
  /\ UNCHANGED << changeSet, forceGlobs, filtered, watchState, isRunning, cached,
                  buildDoneFn, config, timer, ready, alive, disk, nStarted,
                  nEvents, late, prevOut >>

NextScan == \E s \in Slots : ScanStart(s) \/ ScanStep(s) \/ ScanEnd(s)

\* the scan of any batch of a.pug and b.pug
ScanFiles == { PA, PB }

InitScan == InitBatch(ScanFiles)

\* the loop's iterations run one after another until the loop is left
SpecScan == InitScan /\ [][NextScan]_vars /\ WF_vars(NextScan)

C4_Transitivity ==
  [][ \A s \in Slots : builds[s].pc = "depGraph" /\ builds'[s].pc = "scanned" =>
        \A A, B, C \in KeySet(builds[s].files) :
          ( /\ Cardinality({ A, B, C }) = 3
            /\ RefersTo(builds[s].files, A, B)
            /\ RefersTo(builds[s].files, B, C)
            /\ modifiedFiles = { C } )
          => { A, B } \subseteq modifiedFiles' ]_vars

\* C5 (direct dependency): whenever the scan runs, every file of the batch
\* that has a resolver and refers to a path that is marked modified is marked
\* modified after it, whatever the size and the order of the batch.
C5_DirectDependency ==
  [][ \A s \in Slots : builds[s].pc = "depGraph" /\ builds'[s].pc = "scanned" =>
        \A f \in KeySet(builds[s].files), m \in modifiedFiles :
          RefersTo(builds[s].files, f, m) => f \in modifiedFiles' ]_vars

\* --------------------------------------------------- the pipeline's claims
\* the path lies under the directory
UnderDir(p, d) == StartsWith(p, d \o << Sep >>)

UnderAny(p, dirs) == \E i \in DOMAIN dirs : UnderDir(p, dirs[i])

\* the step is the Filter stage of the build in slot s
FilterStep(s) == builds[s].pc = "filter" /\ builds'[s].pc \in { "slow", "end" }

\* the step is the Cache stage of the build in slot s
CacheStep(s) == builds[s].pc = "cache" /\ builds'[s].pc = "watch"

\* C1 (round trip): when the Cache stage of a build the watcher triggered has
\* run, every path its Filter stage moved out of the batch is in the batch
\* again with the contents it had when the previous Cache stage ended, unless
\* the path is in removedFiles or under a directory of removedDirs.
C1_RoundTrip ==
  [][ \A s \in Slots : CacheStep(s) /\ builds[s].trig =>
        \A p \in builds[s].aside :
          (p \notin removedFiles /\ ~UnderAny(p, removedDirs)) =>
            /\ Has(builds'[s].files, p)
            /\ Has(prevOut, p)
            /\ Get(builds'[s].files, p).contents = Get(prevOut, p).contents ]_vars

\* C2 (filter split): after the Filter stage of a build the watcher triggered,
\* the batch holds exactly the paths of the original batch that are marked
\* modified or lie under a modified directory, and every other path of the
\* original batch is in filtered.
C2_FilterSplit ==
  [][ \A s \in Slots : FilterStep(s) /\ builds[s].trig =>
        LET orig == KeySet(builds[s].files)
            kept == { p \in orig : p \in modifiedFiles' \/ UnderAny(p, modifiedDirs') }
        IN /\ KeySet(builds'[s].files) = kept
           /\ (orig \ kept) \subseteq KeySet(filtered') ]_vars

\* the Filter stage of slot s changes neither the batch nor filtered nor the
\* ChangeSet
PassesThrough(s) ==
  /\ builds'[s].files = builds[s].files
  /\ filtered' = filtered
  /\ UNCHANGED changeSet

C6_DirectoryScoping ==
  [][ \A s \in Slots : FilterStep(s) /\ isRunning =>
        \A p \in KeySet(builds[s].files) :
          (UnderAny(p, modifiedDirs) \/ UnderAny(p, removedDirs)) =>
            Has(builds'[s].files, p) /\ p \notin builds'[s].aside ]_vars

\* C9 (filtered-aside set): filtered is empty when a build starts and when a
\* build has ended, and no path of filtered is in a batch the slow stage is
\* about to see.
C9_FilteredEmpty ==
  /\ last.op \in { "start", "done" } => filtered = << >>
  /\ \A s \in Slots : builds[s].pc = "slow" =>
       KeySet(filtered) \cap KeySet(builds[s].files) = {}

\* C10 (cache store): when the Cache stage has run, every path of the batch
\* has an entry in cached.
C10_BatchCached ==
  last.op = "cache" =>
    KeySet(builds[last.slot].files) \subseteq KeySet(cached.o)

\* a Cache stage has restored the files its build's Filter stage moved out
C10_Witness ==
  /\ last.op = "cache"
  /\ builds[last.slot].aside # {}
  /\ builds[last.slot].aside \subseteq KeySet(builds[last.slot].files)

\* ------------------------------------------------ forced rebuilds
\* paths: { 't/*': '*' }, the map of the documentation with t for templates
ForcePaths == [ def |-> TRUE, o |-> << << << "t", "/", "*" >>, << "*" >> >> >> ]

\* a source tree of the templates t/b.pug and t/c.pug
ForceWorld == [ files |-> << PTB, PTC >>, dirs |-> { DT }, mayRename |-> FALSE ]

InitForce == InitWith(Options(NoRename, ForcePaths), ForceWorld, { PTB, PTC })

SpecForce == InitForce /\ [][Next]_vars

\* C7 (forced rebuild): with the force map { "t/*": "*" }, a modified path
\* under t/ and the target glob pushed to forceGlobs, the Filter stage marks
\* every file of the batch modified and moves no file to filtered.
C7_ForcedRebuild ==
  [][ \A s \in Slots :
        ( /\ FilterStep(s)
          /\ builds[s].trig
          /\ \E m \in modifiedFiles : Minimatch(m, << "t", "/", "*" >>)
          /\ \E g \in DOMAIN forceGlobs : forceGlobs[g] = << "*" >> )
        => /\ KeySet(builds[s].files) \subseteq modifiedFiles'
           /\ KeySet(builds'[s].files) = KeySet(builds[s].files)
           /\ builds'[s].aside = {} ]_vars

\* ------------------------------------------------ renamed outputs
\* a source tree as the plain one, the option rename: { from: /\.pug$/,
\* to: '.html' } and a slow plugin that may write a.pug out as a.html
RenameWorld == [ files |-> << PA, PTB >>, dirs |-> { DT }, mayRename |-> TRUE ]

InitRename == InitWith(Options(PugToHtml, NoPaths), RenameWorld, { PA, PTB })

SpecRename == InitRename /\ [][Next]_vars

\* the Cache stage of slot s runs while a.pug is set aside, a.html is cached
\* and neither path is reported removed
RestoresRenamed(s) ==
  /\ CacheStep(s)
  /\ isRunning
  /\ Has(filtered, PA)
  /\ Has(cached.o, PAH)
  /\ { PA, PAH } \cap removedFiles = {}

\* a.html is in the batch with the contents of the cached entry a.html
RestoredFromRenamed(s) ==
  /\ Has(builds'[s].files, PAH)
  /\ Get(builds'[s].files, PAH).contents = Get(cached.o, PAH).contents

\* C8 as stated: also when a.pug itself was cached before a.html was, the
\* restore of a.pug resolves through the rule to the cached entry a.html and
\* copies the contents of that entry onto the restored record.
C8_RenameContinuity ==
  [][ \A s \in Slots : RestoresRenamed(s) => RestoredFromRenamed(s) ]_vars

\* C8 as amended: when the cache holds no entry under a.pug itself, the
\* restore of a.pug resolves through the rule to the cached entry a.html and
\* copies the contents of that entry onto the record restored as a.html.
C8_RenameFallback ==
  [][ \A s \in Slots : RestoresRenamed(s) /\ ~Has(cached.o, PA) =>
        RestoredFromRenamed(s) ]_vars

\* a Cache stage has restored the set-aside a.pug as a.html from an entry an
\* earlier build cached, with no entry cached under a.pug
C8_Witness ==
  /\ last.op = "cache"
  /\ isRunning
  /\ PA \in builds[last.slot].aside
  /\ ~Has(cached.o, PA)
  /\ ~Has(builds[last.slot].files, PA)
  /\ Has(builds[last.slot].files, PAH)
  /\ Get(builds[last.slot].files, PAH).contents.gen < builds[last.slot].id

\* ------------------------------------------------ cycles and failures
\* the build of slot s is between its start and its callback
InFlight(s) == builds[s].pc \in { "filter", "slow", "cache", "watch" }

\* C11 (no overlap): at any time at most one build the watcher triggered is
\* in flight, so that no stage of another such build runs between its stages.
C11_NoOverlap ==
  \A s, t \in Slots :
    (s # t /\ InFlight(s) /\ builds[s].trig) => ~(InFlight(t) /\ builds[t].trig)

\* the step is the callback of the build of slot s, which failed
FailedDone(s) ==
  builds[s].pc = "end" /\ builds[s].err /\ builds[s].trig /\ builds'[s].pc = "free"

\* C12 (failing slow stage): when the slow stage of a build the watcher
\* triggered has failed, the build still ends with the files its Filter set
\* aside back in the batch and with filtered empty.
C12_FailedCycleRestores ==
  [][ \A s \in Slots : FailedDone(s) =>
        /\ builds[s].aside \subseteq KeySet(builds[s].files)
        /\ filtered' = << >> ]_vars

\* C13 (failed build, live watcher): when a build the watcher triggered ends
\* with an error, isRunning is false and the ChangeSet empty afterwards, and
\* the process and its watcher go on, so that a later event starts a build.
C13_WatcherSurvives ==
  [][ \A s \in Slots : FailedDone(s) =>
        /\ ~isRunning'
        /\ modifiedFiles' = {} /\ modifiedDirs' = << >>
        /\ removedFiles' = {} /\ removedDirs' = << >>
        /\ alive' ]_vars

\* the step is a run of the filter, cache or watch stage of slot s
StageStep(s) ==
  builds[s].pc \in { "filter", "cache", "watch" } /\ builds'[s].pc # builds[s].pc

\* C14 (completion callback): every run of the filter, cache or watch stage
\* calls the stage's completion callback exactly once, whether or not a build
\* the watcher triggered is running and whether or not a watcher is active.
C14_DoneOnce ==
  [][ \A s \in Slots : StageStep(s) => builds'[s].dn = 1 ]_vars

\* a later build's watch stage has run with the watcher already active and
\* has called its completion callback
C14_Witness ==
  /\ last.op = "watch"
  /\ builds[last.slot].id > 1
  /\ isWatching
  /\ builds[last.slot].dn = 1

\* the step is the watch stage of slot s
WatchStep(s) == builds[s].pc = "watch" /\ builds'[s].pc = "end"

\* C17 (watch once): however often the watch stage runs, at most one watcher
\* exists and metalsmith.build is wrapped at most once, and a run of the
\* stage after the first changes no state of the plugin.
C17_WatchOnce ==
  [][ /\ watchers' <= 1
      /\ wraps' <= 1
      /\ \A s \in Slots : WatchStep(s) /\ isWatching =>
           UNCHANGED << changeSet, forceGlobs, filtered, watchState, isRunning,
                        cached, buildDoneFn, config, timer, ready, alive, disk >> ]_vars

\* the watch stage has run again in a later build, after the watcher had
\* become ready, and there is one watcher
C17_Witness ==
  /\ last.op = "watch"
  /\ builds[last.slot].id > 1
  /\ ready
  /\ watchers = 1
  /\ wraps = 1

\* ------------------------------------------------ reference structures
\* the paths the file refers to directly
RefsOf(files, filePath) ==
  { t \in KeySet(files) \cup modifiedFiles \cup removedFiles :
      RefersTo(files, filePath, t) }

RECURSIVE ReachLoop(_, _, _)
ReachLoop(files, seen, n) ==
  IF n = 0 THEN seen
  ELSE ReachLoop(files,
                 seen \cup UNION { RefsOf(files, f) : f \in seen \cap KeySet(files) },
                 n - 1)

\* the paths the file refers to, directly or through a chain of batch files
ReachFrom(files, filePath) ==
  ReachLoop(files, RefsOf(files, filePath), Len(files))

\* the step is the dependency scan of slot s
ScanRun(s) == builds[s].pc = "depGraph" /\ builds'[s].pc = "scanned"

\* C18 (cycles): whenever the scan runs over a batch with a reference cycle
\* whose members are all unmodified and one of which refers, directly or
\* through a chain, to a modified file, every member of the cycle is marked
\* modified after it, whatever the order of the batch.
C18_CycleMarked ==
  [][ \A s \in Slots : ScanRun(s) =>
        \A Cyc \in SUBSET KeySet(builds[s].files) :
          ( /\ Cyc # {}
            /\ Cyc \cap modifiedFiles = {}
            /\ \A x, y \in Cyc : y \in ReachFrom(builds[s].files, x)
            /\ \E x \in Cyc : ReachFrom(builds[s].files, x) \cap modifiedFiles # {} )
          => Cyc \subseteq modifiedFiles' ]_vars


\* ------------------------------------------ filter run twice over a batch
\* filter's running branch over the batch of the build, which is offered
\* again afterwards: the batch stays as it was, the paths the run set aside
\* are recorded
FilterRun(s, from, to) ==
  /\ alive /\ isRunning
  /\ builds[s].pc = from
  /\ last' = [ op |-> to, slot |-> s ]
  /\ LET files == builds[s].files
         filesPaths == Keys(files)
         forced == modifiedFiles \cup ForceMarked(filesPaths, forceGlobs)
         dg == depGraph(files, forced, modifiedDirs, options.baseDir,
                        options.depResolver)
         res == FilterLoop(filesPaths, files, << >>, dg.modifiedFiles, modifiedDirs)
     IN /\ modifiedFiles' = dg.modifiedFiles
        /\ IF dg.threw
           THEN /\ builds' = [ builds EXCEPT ![s].pc = "end", ![s].err = TRUE,
                                              ![s].dn = QueueDone(0) ]
                /\ UNCHANGED filtered
           ELSE /\ filtered' = Merge(filtered, res.filtered)
                /\ builds' = [ builds EXCEPT
                     ![s] = [ first |-> IF from = "depGraph" THEN KeySet(res.filtered)
                                        ELSE builds[s].first ]
                            @@ [ builds[s] EXCEPT !.pc = to, !.dn = QueueDone(0),
                                                  !.aside = KeySet(res.filtered) ] ]
  /\ UNCHANGED << modifiedDirs, removedFiles, removedDirs, forceGlobs, watchState,
                  isRunning, cached, buildDoneFn, config, timer, ready, alive,
                  disk, nStarted, nEvents, late, prevOut >>

\* the first run, from the ChangeSet as the watcher left it
FilterFirst(s) == FilterRun(s, "depGraph", "once")

\* the second run, from the ChangeSet as the first run left it
FilterSecond(s) == FilterRun(s, "once", "twice")

NextTwice == \E s \in Slots : FilterFirst(s) \/ FilterSecond(s)

SpecTwice == InitDG /\ [][NextTwice]_vars

\* C15 (idempotence): a second run of filter over the same batch, started
\* from the ChangeSet as the first run left it, sets aside exactly the
\* paths the first run set aside.
C15_FilterIdempotent ==
  \A s \in Slots :
    builds[s].pc = "twice" => builds[s].aside = builds[s].first

\* ------------------------------------------ cache with a props option
\* the property values a record of a.pug can carry
PropVals == { "draft", "final" }

\* a record of a.pug with a title and a nested data.x beside its contents
PageFile(gen, title, x) ==
  [ contents |-> Content(SourceText(PA), gen), title |-> Str(title),
    data |-> Obj([ x |-> Str(x) ]) ]

\* 'title', ['title'], ['title', 'data'], [['data', 'x']], ['title', ['data', 'x']]
\* or no props option
PropsChoices ==
  { NoProps,
    PropName("title"),
    PropList(<< PropName("title") >>),
    PropList(<< PropName("title"), PropName("data") >>),
    PropList(<< PropList(<< "data", "x" >>) >>),
    PropList(<< PropName("title"), PropList(<< "data", "x" >>) >>) }

\* A build the watcher triggered on a change of t/b.pug has reached cache:
\* filter set a.pug aside, the slow plugin rebuilt t/b.pug, and the cache
\* holds the records of the build before.
InitProps ==
  \E props \in PropsChoices, t1, x1, t2, x2 \in PropVals :
    /\ modifiedFiles = { PTB }
    /\ modifiedDirs = << >>
    /\ removedFiles = {}
    /\ removedDirs = << >>
    /\ forceGlobs = << >>
    /\ filtered = << << PA, PageFile(0, t1, x1) >> >>
    /\ isWatching = TRUE
    /\ watchers = 1
    /\ wraps = 1
    /\ isRunning = TRUE
    /\ cached = [ def |-> TRUE,
                  o |-> << << PA, PageFile(1, t2, x2) >>,
                           << PTB, File(Content(SourceText(PTB), 1)) >> >> ]
    /\ buildDoneFn = "handler"
    /\ options = [ Options(NoRename, NoPaths) EXCEPT !.props = props ]
    /\ timer = FALSE
    /\ ready = TRUE
    /\ alive = TRUE
    /\ disk = { PA, PTB }
    /\ env = PlainWorld
    /\ builds = [ s \in Slots |->
                    IF s = 1
                    THEN [ FreeBuild EXCEPT
                             !.pc = "cache", !.id = 2, !.trig = TRUE,
                             !.files = << << PTB, File(Content(SourceText(PTB), 2)) >> >>,
                             !.orig = { PA, PTB }, !.aside = { PA },
                             !.dn = QueueDone(0) ]
                    ELSE FreeBuild ]
    /\ nStarted = 2
    /\ nEvents = 1
    /\ late = {}
    /\ prevOut = << >>
    /\ last = [ op |-> "slow", slot |-> 1 ]

NextProps == \E s \in Slots : Cache(s)

SpecProps == InitProps /\ [][NextProps]_vars

\* the field path an entry of the props list names
PathOf(item) == IF item.type = "array" THEN item.items ELSE << item.name >>

\* the field paths the props option names
Named(props) ==
  IF props.type = "undefined" THEN {}
  ELSE { PathOf(PropsArray(props)[i]) : i \in DOMAIN PropsArray(props) }

\* the value a record has at a field path
RECURSIVE ValueAt(_, _)
ValueAt(o, path) ==
  IF Len(path) = 1 THEN GetProp(o, path[1])
  ELSE LET v == GetProp(o, path[1])
       IN IF "t" \in DOMAIN v /\ v.t = "object" THEN ValueAt(v.o, Tail(path))
          ELSE Undef

\* C16 (props on restore): a file that cache restores from a cached snapshot
\* has the snapshot's contents and the snapshot's value at every field path
\* the props option names; with no props option its other properties are
\* as they were set aside.
C16_PropsCopied ==
  [][ \A s \in Slots : CacheStep(s) /\ isRunning =>
        \A i \in DOMAIN filtered :
          LET f == filtered[i][1]
              file == filtered[i][2]
          IN Has(cached.o, f) =>
               /\ Has(builds'[s].files, f)
               /\ LET r == Get(builds'[s].files, f)
                      c == Get(cached.o, f)
                  IN /\ r.contents = c.contents
                     /\ \A p \in Named(options.props) : ValueAt(r, p) = ValueAt(c, p)
                     /\ options.props = NoProps =>
                          /\ DOMAIN r = DOMAIN file
                          /\ \A k \in DOMAIN r \ { "contents" } : r[k] = file[k] ]_vars

\* the paths the watcher can have reported, and so a file can refer to
KnownPaths == { env.files[i] : i \in DOMAIN env.files }

\* the file refers to a path that was removed or lies under a removed
\* directory
RefersToRemoved(files, filePath) ==
  \E t \in KnownPaths :
    /\ RefersTo(files, filePath, t)
    /\ t \in removedFiles \/ UnderAny(t, removedDirs)

\* C20 (removed dependencies): when filter runs in a triggered build, a batch
\* file whose resolver finds in its contents a reference to a path that is in
\* removedFiles or under a removedDirs prefix is marked modified and stays in
\* the batch.
C20_RemovedDependency ==
  [][ \A s \in Slots : FilterStep(s) /\ isRunning =>
        \A f \in KeySet(builds[s].files) :
          RefersToRemoved(builds[s].files, f) =>
            /\ f \in modifiedFiles'
            /\ Has(builds'[s].files, f) ]_vars

\* ----------------------------------------------- claims on triggerBuild
\* triggerBuild has run
TriggerStep ==
  /\ last'.op = "start"
  /\ nStarted' = nStarted + 1
  /\ builds'[last'.slot].trig

\* the targets of the pairs of the paths map whose source glob matches at
\* least one modified path
MatchedTargets ==
  LET hit == SelectSeq(options.paths.o,
                       LAMBDA e : \E m \in modifiedFiles : Minimatch(m, e[1]))
  IN [ i \in DOMAIN hit |-> hit[i][2] ]

\* C21 (force targets): triggerBuild pushes to forceGlobs the target globs of
\* exactly those pairs of the paths map whose source glob matches a path of
\* modifiedFiles; a pair whose source glob matches none pushes nothing.
C21_ForceTargets ==
  [][ TriggerStep => forceGlobs' = forceGlobs \o MatchedTargets ]_vars

\* ------------------------------------- the scan of a mixed batch
\* the scan, iteration by iteration, of any batch of a.pug and i.md
SpecMix == InitBatch({ PA, PM }) /\ [][NextScan]_vars

\* one iteration of the scan's loop has run
ScanStepOf(s) == builds[s].pc = "scan" /\ last'.op = "scanStep" /\ last'.slot = s

\* C22 (resolver by extension): the resolver an iteration of the scan applies
\* to a file is the one its extension and the configured depResolver give,
\* whatever files came before it, and a file to which no resolver applies is
\* not marked modified by the scan.
C22_ResolverByExtension ==
  [][ \A s \in Slots : ScanStepOf(s) =>
        LET filePath == builds[s].scan.paths[builds[s].scan.i + 1]
            own == getDepResolver(filePath, options.depResolver)
        IN /\ builds'[s].scan.depResolver = own
           /\ \A f \in modifiedFiles' \ modifiedFiles :
                getDepResolver(f, options.depResolver).type # "undefined" ]_vars

\* --------------------------------------- a resolver callback
\* the plain source tree with the option depResolver: () => null, a callback
\* that reports no dependencies as its documentation allows
NullResolver == [ type |-> "function", returns |-> "null" ]

InitNull ==
  InitWith([ Options(NoRename, NoPaths) EXCEPT !.depResolver = NullResolver ],
           PlainWorld, { PA, PTB })

SpecNull == InitNull /\ [][Next]_vars

\* filter has run in the build of the slot
FilterRan(s) == builds[s].pc = "filter" /\ last'.op = "filter" /\ last'.slot = s

\* C23 (filter never fails): whatever the batch, the ChangeSet and the
\* resolver, a callback that returns null included, filter completes without
\* raising an error.
C23_FilterNeverFails ==
  [][ \A s \in Slots : FilterRan(s) => ~builds'[s].err ]_vars

\* C24 (filter narrows): after filter the batch is part of the batch before
\* it; the batch and the paths filter set aside are disjoint and together
\* make up the batch before it; every record left in the batch or set aside
\* is the record the batch held; the entries of filtered that were not set
\* aside, the cache, removedFiles and removedDirs are as they were.
C24_FilterNarrows ==
  [][ \A s \in Slots : FilterRan(s) =>
        LET before == builds[s].files
            after == builds'[s].files
            aside == builds'[s].aside
        IN /\ KeySet(after) \subseteq KeySet(before)
           /\ aside \cap KeySet(after) = {}
           /\ aside \cup KeySet(after) = KeySet(before)
           /\ aside \subseteq KeySet(filtered')
           /\ \A p \in KeySet(after) : Get(after, p) = Get(before, p)
           /\ \A p \in aside : Get(filtered', p) = Get(before, p)
           /\ \A p \in KeySet(filtered') \ aside :
                Has(filtered, p) /\ Get(filtered', p) = Get(filtered, p)
           /\ \A p \in KeySet(filtered) : Has(filtered', p)
           /\ UNCHANGED << cached, removedFiles, removedDirs >> ]_vars

\* filter has kept one part of a batch and set the other part aside
C24_Witness ==
  /\ last.op = "filter"
  /\ builds[last.slot].aside # {}
  /\ builds[last.slot].files # << >>
  /\ builds[last.slot].aside \subseteq KeySet(filtered)

\* ------------------------------------------------- claims on cache
\* cache has run in the build of the slot, with a cache of an earlier build
CacheRan(s) == builds[s].pc = "cache" /\ last'.op = "cache" /\ last'.slot = s

\* cache has run its removal steps and its restore loop
Reconciled(s) == CacheRan(s) /\ isRunning /\ cached.def

\* the key under which the removal loop looks for the entry of a removed path
RemovedKeyOf(p) ==
  IF ~Has(cached.o, p) /\ validRename(options.rename)
  THEN resolveRename(p, options.rename) ELSE p

\* C25 (removed files leave the cache): after a cache stage that reconciles,
\* for every path of removedFiles the entry under that path or, if there is
\* none, under the path the rename rule gives, is in the cache only if the
\* batch the stage started with holds that path, and then it is that batch's
\* record.
C25_RemovedDeleted ==
  [][ \A s \in Slots : Reconciled(s) =>
        \A p \in removedFiles :
          Has(cached'.o, RemovedKeyOf(p)) =>
            /\ Has(builds[s].files, RemovedKeyOf(p))
            /\ Get(cached'.o, RemovedKeyOf(p)) = Get(builds[s].files, RemovedKeyOf(p)) ]_vars

\* the cache stage of the first triggered build has deleted the entry of a
\* path that was unlinked: the path has left disk and removedFiles and the
\* cache, which still holds another entry
C25_Witness ==
  /\ last.op = "cache"
  /\ builds[last.slot].trig /\ builds[last.slot].id = 2 /\ nStarted = 2
  /\ ~builds[last.slot].err
  /\ cached.o # << >>
  /\ \E p \in KnownPaths : p \notin disk /\ p \notin removedFiles /\ ~Has(cached.o, p)

\* the removal loop found and deleted the cache entry of the removed path
FoundAndDeleted(p) ==
  /\ Has(cached.o, RemovedKeyOf(p))
  /\ ~Has(RemoveFilesLoop(SetToSeq(removedFiles), cached.o, removedFiles,
                          options.rename).cached, RemovedKeyOf(p))

\* C26 (removed paths cleared): every path of removedFiles whose cache entry
\* the cache stage found and deleted, under the path itself or under the path
\* the rename rule gives, has left removedFiles when that stage ends.
C26_RemovedCleared ==
  [][ \A s \in Slots : Reconciled(s) =>
        \A p \in removedFiles : FoundAndDeleted(p) => p \notin removedFiles' ]_vars

\* C27 (removed directories leave the cache): after a cache stage that
\* reconciles, no entry the cache held before lies under a directory of
\* removedDirs, unless the batch of this build holds its path again, and every
\* entry it held that lies under no such directory and is no removed file's
\* entry is still there.
C27_RemovedDirsPurged ==
  [][ \A s \in Slots : Reconciled(s) =>
        \A p \in KeySet(cached.o) :
          /\ UnderAny(p, removedDirs) =>
               ~Has(cached'.o, p) \/ Has(builds[s].files, p)
          /\ ( /\ ~UnderAny(p, removedDirs)
               /\ \A r \in removedFiles : RemovedKeyOf(r) # p )
             => Has(cached'.o, p) ]_vars

\* the cache, as the restore loop finds it after the removal steps
AfterRemoval ==
  RemoveDirs(RemoveFilesLoop(SetToSeq(removedFiles), cached.o, removedFiles,
                             options.rename).cached, removedDirs)

\* the restore loop finds no entry for the path, under the path itself or
\* under the path the rename rule gives
NoEntry(p) ==
  /\ ~Has(AfterRemoval, p)
  /\ validRename(options.rename) => ~Has(AfterRemoval, resolveRename(p, options.rename))

\* C28 (no entry, no restore): a file of filtered for which the restore loop
\* finds no cache entry is not put back into the batch and is no longer in
\* filtered after the cache stage, and the stage raises no error.
C28_DroppedWithoutEntry ==
  [][ \A s \in Slots : Reconciled(s) =>
        /\ ~builds'[s].err
        /\ \A p \in KeySet(filtered) : NoEntry(p) =>
             /\ ~Has(filtered', p)
             /\ Has(builds'[s].files, p) =>
                  Has(builds[s].files, p)
                  /\ Get(builds'[s].files, p) = Get(builds[s].files, p) ]_vars

\* a cache stage has met a file of filtered without a cache entry and has
\* gone on to the watch stage without it
C28_Witness ==
  /\ last.op = "cache"
  /\ "dropped" \in DOMAIN last
  /\ \E p \in last.dropped : ~Has(builds[last.slot].files, p)
  /\ builds[last.slot].pc = "watch"
  /\ filtered = << >>

\* the cache entries the stage's removal steps leave
Surviving == IF isRunning THEN AfterRemoval ELSE cached.o

\* C29 (merge): after the cache stage every path of the batch the stage
\* started with has as its cache entry the copy of its record taken at the
\* start, and every other entry that the removal steps left, the entry of a
\* restored file among them, is as it was.
C29_SnapshotMerged ==
  [][ \A s \in Slots : CacheRan(s) /\ ~builds'[s].err =>
        /\ \A p \in KeySet(builds[s].files) :
             Has(cached'.o, p) /\ Get(cached'.o, p) = Get(builds[s].files, p)
        /\ \A p \in KeySet(Surviving) \ KeySet(builds[s].files) :
             Has(cached'.o, p) /\ Get(cached'.o, p) = Get(cached.o, p)
        /\ KeySet(cached'.o) = KeySet(Surviving) \cup KeySet(builds[s].files) ]_vars

\* a cache stage of a later build has overwritten the entry of a rebuilt
\* file and kept the entry of a file it restored
C29_Witness ==
  /\ last.op = "cache"
  /\ builds[last.slot].pc = "watch"
  /\ \E p \in builds[last.slot].aside :
       /\ Has(builds[last.slot].files, p)
       /\ Has(cached.o, p)
       /\ Get(cached.o, p).contents.gen < builds[last.slot].id
  /\ \E q \in KeySet(builds[last.slot].files) \ builds[last.slot].aside :
       /\ Has(cached.o, q)
       /\ Get(cached.o, q).contents.gen = builds[last.slot].id
       /\ builds[last.slot].id > 1

\* C30 (no prior cache): the cache stage never fails, and when no earlier
\* build has stored a cache it stores the copy of the batch as the cache
\* and does nothing else: the batch, filtered and the ChangeSet are as they
\* were, so removal and restore run only where a cache exists.
C30_SnapshotOnly ==
  [][ \A s \in Slots : CacheRan(s) =>
        /\ ~builds'[s].err
        /\ builds'[s].pc = "watch"
        /\ cached'.def
        /\ ~cached.def =>
             /\ cached'.o = builds[s].files
             /\ builds'[s].files = builds[s].files
             /\ UNCHANGED << filtered, changeSet >> ]_vars

\* the cache stage of the first build has stored its batch as the cache
C30_Witness ==
  /\ last.op = "cache"
  /\ nStarted = 1
  /\ builds[last.slot].id = 1
  /\ builds[last.slot].pc = "watch"
  /\ cached.def
  /\ cached.o = builds[last.slot].files
  /\ cached.o # << >>

\* ------------------------------------------------- claims on the watcher
\* the plain source tree with a watcher that also reports events other than
\* add, change, unlink, addDir and unlinkDir
NextEvents == Next \/ FsOther

SpecEvents == Init /\ [][NextEvents]_vars

\* handleAll has run for an event of one of the kinds
EventOf(kinds) == nEvents' = nEvents + 1 /\ last'.op \in kinds

\* C31 (one collection per event): add and change put one path into
\* modifiedFiles, unlink one path into removedFiles, addDir appends one
\* directory to modifiedDirs, unlinkDir one to removedDirs, each leaving the
\* other three collections as they were and starting the debounce timer; any
\* other event changes no collection and starts no timer.
C31_OneCollection ==
  [][ /\ EventOf({ "add", "change" }) =>
           /\ \E p \in KnownPaths : modifiedFiles' = modifiedFiles \cup { p } /\ p \in disk'
           /\ UNCHANGED << modifiedDirs, removedFiles, removedDirs >>
           /\ timer'
      /\ EventOf({ "unlink" }) =>
           /\ \E p \in KnownPaths : removedFiles' = removedFiles \cup { p } /\ p \in disk \ disk'
           /\ UNCHANGED << modifiedFiles, modifiedDirs, removedDirs >>
           /\ timer'
      /\ EventOf({ "addDir" }) =>
           /\ \E d \in env.dirs : modifiedDirs' = Append(modifiedDirs, d)
           /\ UNCHANGED << modifiedFiles, removedFiles, removedDirs >>
           /\ timer'
      /\ EventOf({ "unlinkDir" }) =>
           /\ \E d \in env.dirs : removedDirs' = Append(removedDirs, d)
           /\ UNCHANGED << modifiedFiles, modifiedDirs, removedFiles >>
           /\ timer'
      /\ EventOf({ "other" }) => UNCHANGED << changeSet, timer >> ]_vars

\* the watcher has reported an unlink, and before it an event of another
\* kind, and each is in its own collection
C31_Witness ==
  /\ last.op = "unlink"
  /\ removedFiles # {}
  /\ modifiedFiles # {} \/ modifiedDirs # << >>
  /\ removedFiles \cap modifiedFiles = {}

\* C32 (modified or removed): no path is in modifiedFiles and in removedFiles
\* at once; a path that was modified and then deleted is in removedFiles
\* only.
C32_ModifiedOrRemoved == modifiedFiles \cap removedFiles = {}

\* the plain source tree, where the debounce timer, once started, runs out:
\* setTimeout calls triggerBuild when the delay has passed
SpecDebounce == Init /\ [][Next]_vars /\ WF_vars(TriggerBuild)

\* C33 (debounce): every handled event leaves the timer running; triggerBuild
\* runs only when the timer has run out after an event and leaves no timer,
\* so the events since the trigger before it make one burst with one
\* trigger after its last event; and a running timer does run out into a
\* trigger while the process lives and builds can still be started.
C33_Debounce ==
  /\ [][ /\ EventOf({ "add", "change", "unlink", "addDir", "unlinkDir" }) => timer'
         /\ TriggerStep => timer /\ ~timer'
         /\ (timer /\ ~timer') => TriggerStep
         /\ (timer' # timer) =>
              TriggerStep \/ EventOf({ "add", "change", "unlink", "addDir", "unlinkDir" })
       ]_vars
  /\ (timer ~> (~timer \/ ~alive \/ nStarted = MaxBuilds \/ \A s \in Slots : ~IsFree(s)))

\* two events have made one burst, and one trigger has followed it
C33_Witness ==
  /\ last.op = "start"
  /\ builds[last.slot].trig
  /\ nEvents = 2
  /\ nStarted = 2
  /\ ~timer
\* ------------------------------------------------ claims on the rebuild cycle
\* the completion handler of a build triggerBuild started has run
TriggeredDone == last'.op = "done" /\ last'.trig

\* a list lost an element it held
Shortened(old, new) ==
  ~(Len(old) <= Len(new) /\ \A i \in 1..Len(old) : new[i] = old[i])

\* C34 (one build per trigger, one clearing per build): triggerBuild starts
\* exactly one build and touches no other; when the build it started completes,
\* with or without an error, modifiedFiles, modifiedDirs, removedFiles,
\* removedDirs and forceGlobs are all empty; and no other step takes anything
\* out of them, but for the cache stage that reconciles, which only takes
\* resolved paths out of removedFiles.
C34_ClearedOnCompletion ==
  [][ /\ TriggerStep =>
           /\ IsFree(last'.slot)
           /\ builds'[last'.slot].pc = "filter"
           /\ \A s \in Slots \ { last'.slot } : builds'[s] = builds[s]
      /\ TriggeredDone =>
           /\ modifiedFiles' = {} /\ modifiedDirs' = << >>
           /\ removedFiles' = {} /\ removedDirs' = << >>
           /\ forceGlobs' = << >>
      /\ ~TriggeredDone =>
           /\ modifiedFiles \subseteq modifiedFiles'
           /\ ~Shortened(modifiedDirs, modifiedDirs')
           /\ ~Shortened(removedDirs, removedDirs')
           /\ ~Shortened(forceGlobs, forceGlobs')
           /\ removedFiles \subseteq removedFiles'
                \/ \E s \in Slots : Reconciled(s) ]_vars

\* a build triggerBuild started after two events has failed and completed,
\* and nothing is left of what the events recorded
C34_Witness ==
  /\ last.op = "done" /\ last.trig /\ last.err
  /\ nEvents = 2 /\ ~timer
  /\ modifiedFiles = {} /\ modifiedDirs = << >>
  /\ removedFiles = {} /\ removedDirs = << >>
  /\ forceGlobs = << >>
\* ------------------------------------------------ claims on the rename rule
\* a source tree of t/b.pug alone and a slow plugin that may turn .pug into
\* .html, under a rename option that is null, a callback, a pattern with an
\* empty replacement, or an object without a pattern
InitRules ==
  \E rule \in { NullRename, PugToHtmlFn, StripPug, ToOnly } :
    InitWith(Options(rule, NoPaths),
             [ files |-> << PTB >>, dirs |-> { DT }, mayRename |-> TRUE ], { PTB })

SpecRules == InitRules /\ [][Next]_vars

\* the path the rename rule is documented to give
Renamed(file, rename) ==
  IF rename.type = "function"
  THEN IF file # << >> /\ file[Len(file)] = rename.from
       THEN Front(file) \o << rename.to >> ELSE file
  ELSE IF rename.type = "object" /\ rename.from.type # "undefined"
            /\ rename.to # Undefined
  THEN IF file # << >> /\ file[Len(file)] = rename.from.tok
       THEN Front(file) \o (IF rename.to = "" THEN << >> ELSE << rename.to >>)
       ELSE file
  ELSE file

\* C35 (rename resolution is total): a cache stage that reconciles does not
\* fail, whatever the rename option is, and every path it may look up is
\* resolved as documented: through the callback, by one substitution for a
\* rule with a pattern and a replacement (the empty string too), and to the
\* path itself for every other shape.
C35_RenameTotal ==
  [][ \A s \in Slots : (CacheRan(s) /\ isRunning /\ cached.def) =>
        /\ ~builds'[s].err
        /\ \A f \in KnownPaths : resolveRename(f, options.rename)
                                   = Renamed(f, options.rename) ]_vars
\* ------------------------------------------------ claims on concurrent events
\* C36 (no change is lost): when the filter stage of a build triggerBuild
\* started runs, every file created or changed while an earlier triggered
\* build was in flight is in modifiedFiles, and so, if the batch holds it,
\* stays in the batch.
C36_NoChangeLost ==
  [][ \A s \in Slots : (FilterRan(s) /\ builds[s].trig) =>
        \A e \in late : e[2] < builds[s].id =>
          /\ e[1] \in modifiedFiles
          /\ Has(builds[s].files, e[1]) /\ ~FilterPasses
               => e[1] \notin builds'[s].aside ]_vars
\* C37 (the completion handler terminates): when the completion handler of a
\* build triggerBuild started runs, the callback the build wrapper captured,
\* to which it forwards the result, is not this handler itself.
C37_HandlerTerminates ==
  [][ TriggeredDone => buildDoneFn # "handler" ]_vars
\* ------------------------------------------------ claims on the restored batch
\* C38 (slow-stage output is kept): the cache stage leaves every record the
\* batch holds when it starts as the slow stage left it; no record restored
\* from the files set aside takes its place.
C38_OutputKept ==
  [][ \A s \in Slots : (CacheRan(s) /\ builds'[s].pc = "watch") =>
        \A p \in KeySet(builds[s].files) :
          /\ Has(builds'[s].files, p)
          /\ Get(builds'[s].files, p) = Get(builds[s].files, p) ]_vars
\* C39 (one running state per cycle): when the filter stage of a build has set
\* files aside, the cache stage of the same build finds isRunning still true
\* and runs its restore branch, which drains the files set aside.
C39_SameRunningState ==
  [][ \A s \in Slots : (CacheRan(s) /\ builds[s].aside # {}) =>
        /\ isRunning
        /\ filtered' = << >> ]_vars

=======================================================================
